---------------------------- MODULE Spec2Model ----------------------------
(***************************************************************************)
(* Model of src/bpe_tokenizer.c: the pair hash map (hash, add_pair,        *)
(* find_most_frequent_pair), tokenize and add_to_vocabulary,               *)
(* convert_vocab_to_subwords and the merge loop bpe_subword_merge.         *)
(*                                                                         *)
(* Wide strings are sequences of code points (L' ' is 32, L'a' is 97).     *)
(* wcstok is called with a null save pointer, so the tokenizer state is    *)
(* the library's own; the model takes the successive results of wcstok on  *)
(* one string to be its maximal runs of non-delimiter characters.          *)
(* Allocations succeed in every specification but SpecAlloc.               *)
(***************************************************************************)
EXTENDS Integers, Sequences, FiniteSets, TLC

VARIABLES
    vocabulary,   \* VocabEntry array: sequence of [token, id, freq]
    vocab_size,   \* number of entries in use
    num_merges,   \* argument of bpe_subword_merge
    merge_iter,   \* loop counter of bpe_subword_merge
    pc,           \* position of the main thread
    i,            \* entry index of the running counting or merge pass (0-based)
    word_copy,    \* word_copy / copy: the duplicate wcstok is working on
    wcs_save,     \* where the next wcstok(NULL, ...) call resumes in word_copy
    token,        \* token / sym: the last result of wcstok, <<>> for NULL
    symbols,      \* symbols[0 .. symbol_count - 1] of the counting pass
    j,            \* pair index of the counting pass (0-based)
    reps,         \* k: add_pair calls made so far for pair j
    new_token,    \* the surface form the merge pass is rebuilding
    first,        \* flag of the merge pass: nothing emitted yet
    map,          \* BPE_HashMap table: bucket index -> chain, head first
    map_state,    \* "none", "live" or "freed"
    best_pair,    \* out-parameter of find_most_frequent_pair
    best_count,   \* out-parameter of find_most_frequent_pair
    log,          \* the "[INFO] Subword Merge" lines printed so far
    words,        \* the vocabulary as tokenize left it (kept for reference)
    wpc,          \* concurrent callers of add_pair: position of each worker
    wcalls,       \* the pair keys each worker passes to add_pair, in order
    wentry,       \* entry: each worker's position in the chain it scans
    mutexes,      \* the bucket indexes whose mutex is held
    returned,     \* how many of its add_pair calls each worker has returned from
    text,         \* tokenize: the tokens of the text wcstok has yet to return
    token_count,  \* tokenize's count: tokens handed to add_to_vocabulary so far
    stderr,       \* the lines written to stderr so far
    vocab_cap     \* the value MAX_VOCAB_SIZE has in the build that runs

vars == <<vocabulary, vocab_size, num_merges, merge_iter, pc, i, word_copy,
          wcs_save, token, symbols, j, reps, new_token, first, map,
          map_state, best_pair, best_count, log, words, wpc, wcalls, wentry, mutexes,
          returned, text, token_count, stderr, vocab_cap>>

\* the arguments and results that no step of the passes writes
frameVars == <<vocab_size, num_merges, words, text, token_count, stderr, vocab_cap>>

\* the locals of the two passes
scanVars == <<word_copy, wcs_save, token, symbols, j, reps, new_token, first>>

selectVars == <<best_pair, best_count, log>>

workerVars == <<wpc, wcalls, wentry, mutexes, returned>>

-----------------------------------------------------------------------------
(* Program constants *)

MAX_TOKEN_LEN == 128
MAX_PAIR_LEN == 256
HASH_SIZE == 10000
MAX_SYMBOLS == 256
MAX_TOKENS == 100000
MAX_VOCAB_SIZE == 50000
SP == 32
DJB2_INIT == 5381

(* Bounds of the model *)

MaxVocab == 2
MaxFreq == 2
MaxMerges == 2
MaxCalls == 2
MaxText == 3
MaxFails == 1
MaxStore == 2

-----------------------------------------------------------------------------
(* Strings *)

\* wcstok(NULL, L" ", ...) resuming at position save of s: skips the
\* delimiters, returns the run of non-delimiters that follows (<<>> stands for
\* NULL: no such run) and the position after the delimiter that ended it
wcstok(s, save) ==
    IF \A k \in save..Len(s) : s[k] = SP
    THEN [token |-> <<>>, save |-> Len(s) + 1]
    ELSE LET start == CHOOSE k \in save..Len(s) :
                        /\ s[k] # SP
                        /\ \A q \in save..(k - 1) : s[q] = SP
             stop == CHOOSE k \in (start + 1)..(Len(s) + 1) :
                        /\ k = Len(s) + 1 \/ s[k] = SP
                        /\ \A q \in (start + 1)..(k - 1) : s[q] # SP
         IN  [token |-> SubSeq(s, start, stop - 1), save |-> stop + 1]

\* swprintf(buf, n, ...): at most n - 1 characters are stored
Swprintf(n, s) == IF Len(s) < n THEN s ELSE SubSeq(s, 1, n - 1)

\* swprintf(pair, MAX_PAIR_LEN, L"%ls %ls", a, b)
PairKey(a, b) == Swprintf(MAX_PAIR_LEN, a \o <<SP>> \o b)

\* (mutation: the separator is kept between the two symbols)
MergedSpaced(sym, next) == Swprintf(MAX_TOKEN_LEN, sym \o <<SP>> \o next)

\* swprintf(merged, MAX_TOKEN_LEN, L"%ls%ls", sym, next)
Merged(sym, next) == Swprintf(MAX_TOKEN_LEN, sym \o next)

\* if (!first) wcscat(new_token, L" "); wcscat(new_token, s);
Wcscat(dst, is_first, s) ==
    IF is_first THEN dst \o s ELSE dst \o <<SP>> \o s

-----------------------------------------------------------------------------
(* hash: djb2 on a 32-bit unsigned int, kept as two 16-bit halves so that  *)
(* no intermediate value leaves the range of the checker's integers.       *)

Hash33(h, c) ==
    LET lo == h.lo * 33 + c
        hi == h.hi * 33 + (lo \div 65536)
    IN  [hi |-> hi % 65536, lo |-> lo % 65536]

\* while (*pair) hash_val = ((hash_val << 5) + hash_val) + *pair++;
\* (the accumulator is bound to its value at each turn)
RECURSIVE HashFrom(_, _, _)
HashFrom(s, p, h) ==
    IF p > Len(s) THEN h
    ELSE CHOOSE r \in {HashFrom(s, p + 1, v) : v \in {Hash33(h, s[p])}} : TRUE

hash(pair) ==
    LET h == HashFrom(pair, 1, [hi |-> 0, lo |-> DJB2_INIT])
    IN  ((h.hi % HASH_SIZE) * (65536 % HASH_SIZE) + h.lo) % HASH_SIZE

-----------------------------------------------------------------------------
(* BPE_HashMap: only the non-empty buckets are stored *)

EmptyTable == [b \in {} |-> <<>>]

Chain(m, index) == IF index \in DOMAIN m THEN m[index] ELSE <<>>

\* the position in the chain of the entry add_pair's scan stops at, 0 if none
ScanChain(chain, pair) ==
    IF \E k \in 1..Len(chain) : chain[k].pair = pair
    THEN CHOOSE k \in 1..Len(chain) :
            /\ chain[k].pair = pair
            /\ \A q \in 1..(k - 1) : chain[q].pair # pair
    ELSE 0

\* entry->count++
IncrementEntry(chain, k) == [chain EXCEPT ![k].count = @ + 1]

\* new_pair: count 1, linked in at the head of the chain
InsertHead(chain, pair, id) ==
    <<[pair |-> pair, count |-> 1, id |-> id]>> \o chain

SetChain(m, index, chain) == (index :> chain) @@ m

add_pair(m, pair, id) ==
    LET index == hash(pair)
        chain == Chain(m, index)
        k == ScanChain(chain, pair)
    IN  IF k > 0
        THEN SetChain(m, index, IncrementEntry(chain, k))
        ELSE SetChain(m, index, InsertHead(chain, pair, id))

\* (mutation: >= in place of >)
BetterOrEqual(count, best) == count >= best

\* if (entry->count > *best_count)
Better(count, best) == count > best

\* one entry of the scan: the out-parameters after it
Visit(entry, best) ==
    IF Better(entry.count, best.best_count)
    THEN [best_pair |-> entry.pair, best_count |-> entry.count]
    ELSE best

\* while (entry) { ...; entry = entry->next; }
RECURSIVE FindInChain(_, _, _)
FindInChain(chain, k, best) ==
    IF k > Len(chain) THEN best
    ELSE CHOOSE r \in {FindInChain(chain, k + 1, v) : v \in {Visit(chain[k], best)}} :
            TRUE

\* for (i = 0; i < HASH_SIZE; i++): buckets in increasing index; the empty
\* ones contribute nothing and are stepped over
RECURSIVE FindInBuckets(_, _, _)
FindInBuckets(m, from, best) ==
    LET rest == {b \in DOMAIN m : b >= from}
    IN  IF rest = {} THEN best
        ELSE LET b == CHOOSE x \in rest : \A y \in rest : x <= y
             IN  CHOOSE r \in {FindInBuckets(m, nb, v) :
                                 nb \in {b + 1},
                                 v \in {FindInChain(m[b], 1, best)}} : TRUE

find_most_frequent_pair(m) ==
    FindInBuckets(m, 0, [best_pair |-> <<>>, best_count |-> 0])


-----------------------------------------------------------------------------
(* Vocabulary and the two passes *)

\* convert_vocab_to_subwords, one word: a space between consecutive characters
SubwordForm(word) ==
    [k \in 1..(2 * Len(word) - 1) |->
        IF k % 2 = 1 THEN word[(k + 1) \div 2] ELSE SP]

convert_vocab_to_subwords(v) ==
    [k \in 1..Len(v) |-> [v[k] EXCEPT !.token = SubwordForm(v[k].token)]]

\* (mutation: the symbol array takes any number of symbols)
SplitGuardUncapped(tok, symbol_count) == tok # <<>>

\* while (token && symbol_count < 256)
SplitGuard(tok, symbol_count) == tok # <<>> /\ symbol_count < MAX_SYMBOLS

\* (mutation: after a fusion the scan resumes at next instead of after it)
MergeIterOverlap(copy, sym, save, tok, best) ==
    LET next == wcstok(copy, save)
    IN  IF next.token # <<>> /\ PairKey(sym, next.token) = best
        THEN [fused |-> TRUE,
              new_token |-> Wcscat(tok.new_token, tok.first,
                                   Merged(sym, next.token)),
              sym |-> next.token,
              save |-> next.save]
        ELSE [fused |-> FALSE,
              new_token |-> Wcscat(tok.new_token, tok.first, sym),
              sym |-> next.token,
              save |-> next.save]

\* one turn of while (sym != NULL) in the merge pass: the new values of
\* sym, of the wcstok position, and of new_token
MergeIter(copy, sym, save, tok, best) ==
    LET next == wcstok(copy, save)
    IN  IF next.token # <<>> /\ PairKey(sym, next.token) = best
        THEN LET after == wcstok(copy, next.save)
             IN  [fused |-> TRUE,
                  new_token |-> Wcscat(tok.new_token, tok.first,
                                       Merged(sym, next.token)),
                  sym |-> after.token,
                  save |-> after.save]
        ELSE [fused |-> FALSE,
              new_token |-> Wcscat(tok.new_token, tok.first, sym),
              sym |-> next.token,
              save |-> next.save]

\* new_token[MAX_TOKEN_LEN] holds the string and its terminator
FitsNewToken(s) == Len(s) < MAX_TOKEN_LEN

\* (mutation: the entry is built anew, its frequency restarting at 1)
RewriteEntryFresh(entry, updated) ==
    [token |-> updated, id |-> entry.id, freq |-> 1]

\* free(vocabulary[i].token); vocabulary[i].token = updated;
RewriteEntry(entry, updated) == [entry EXCEPT !.token = updated]

\* (mutation: <= in place of <)
LoopGuardInclusive(iter, n) == iter <= n

\* merge_iter < num_merges
LoopGuard(iter, n) == iter < n

\* (mutation: the break never taken)
NoMorePairsNever(count) == count < 0

\* if (best_count < 1) break;
NoMorePairs(count) == count < 1

-----------------------------------------------------------------------------
(* The counting pass as a function of the store: the table it leaves       *)

\* while (token && symbol_count < 256) symbols[symbol_count++] = token; ...
RECURSIVE SplitFrom(_, _, _, _)
SplitFrom(copy, tok, save, syms) ==
    IF SplitGuard(tok, Len(syms))
    THEN CHOOSE r \in {SplitFrom(copy, t.token, t.save, v) :
                          t \in {wcstok(copy, save)}, v \in {Append(syms, tok)}} : TRUE
    ELSE syms

SplitSymbols(word) ==
    LET t == wcstok(word, 1) IN SplitFrom(word, t.token, t.save, <<>>)

\* for (k = 0; k < vocabulary[i].freq; k++) add_pair(map, pair, i);
RECURSIVE CountReps(_, _, _, _)
CountReps(m, pair, id, n) ==
    IF n <= 0 THEN m
    ELSE CHOOSE r \in {CountReps(v, pair, id, n - 1) :
                          v \in {add_pair(m, pair, id)}} : TRUE

\* for (j = 0; j < symbol_count - 1; j++)
RECURSIVE CountPairs(_, _, _, _, _)
CountPairs(m, syms, k, freq, id) ==
    IF k > Len(syms) - 1 THEN m
    ELSE CHOOSE r \in {CountPairs(v, syms, k + 1, freq, id) :
                          v \in {CountReps(m, PairKey(syms[k], syms[k + 1]),
                                           id, freq)}} : TRUE

\* for (i = 0; i < vocab_size; i++)
RECURSIVE CountEntries(_, _, _)
CountEntries(m, v, n) ==
    IF n > Len(v) THEN m
    ELSE CHOOSE r \in {CountEntries(t, v, n + 1) :
                          t \in {CountPairs(m, SplitSymbols(v[n].token), 1,
                                            v[n].freq, n - 1)}} : TRUE

CountingPass(v) == CountEntries(EmptyTable, v, 1)

\* the merge pass on one entry as a function: while (sym != NULL) { ... }
RECURSIVE MergeFrom(_, _, _, _, _)
MergeFrom(copy, sym, save, tok, best) ==
    IF sym = <<>> THEN tok.new_token
    ELSE CHOOSE r \in {MergeFrom(copy, t.sym, t.save,
                                  [new_token |-> t.new_token, first |-> FALSE], best) :
                          t \in {MergeIter(copy, sym, save, tok, best)}} : TRUE

\* the surface form the merge pass for best stores in place of old_token
MergeEntry(old_token, best) ==
    LET t == wcstok(old_token, 1)
    IN  MergeFrom(old_token, t.token, t.save,
                  [new_token |-> <<>>, first |-> TRUE], best)

-----------------------------------------------------------------------------
(* Inputs: the vocabulary tokenize leaves, distinct words with id = index  *)

Words == { <<97>>, <<97, 98>>, <<97, 97, 97>>, <<97, 98, 97, 98>> }

Freqs == 1..MaxFreq

VocabOf(ws, fs) ==
    [k \in 1..Len(ws) |-> [token |-> ws[k], id |-> k - 1, freq |-> fs[k]]]

SmallVocabularies ==
    UNION { { VocabOf(ws, fs) :
                ws \in {x \in [1..n -> Words] :
                          \A a, b \in 1..n : a # b => x[a] # x[b]},
                fs \in [1..n -> Freqs] } : n \in 0..MaxVocab }

\* low 5, lower 2, newest 6, widest 3
ScenarioWords ==
    VocabOf(<< <<108, 111, 119>>, <<108, 111, 119, 101, 114>>,
               <<110, 101, 119, 101, 115, 116>>, <<119, 105, 100, 101, 115, 116>> >>,
            <<5, 2, 6, 3>>)

\* every token of the text was handed to add_to_vocabulary once
RECURSIVE SumFreqFrom(_, _)
SumFreqFrom(v, n) == IF n > Len(v) THEN 0 ELSE v[n].freq + SumFreqFrom(v, n + 1)

SumFreq(v) == SumFreqFrom(v, 1)

NoWorkers == [w \in {} |-> 0]

WorkersIdle ==
    /\ wpc = NoWorkers
    /\ wcalls = NoWorkers
    /\ wentry = NoWorkers
    /\ mutexes = {}
    /\ returned = NoWorkers

InitWith(inputs, budgets) ==
    /\ words \in inputs
    /\ vocabulary = words
    /\ vocab_size = Len(words)
    /\ num_merges \in budgets
    /\ merge_iter = 0
    /\ pc = "Convert"
    /\ i = 0
    /\ word_copy = <<>>
    /\ wcs_save = 1
    /\ token = <<>>
    /\ symbols = <<>>
    /\ j = 0
    /\ reps = 0
    /\ new_token = <<>>
    /\ first = TRUE
    /\ map = EmptyTable
    /\ map_state = "none"
    /\ best_pair = <<>>
    /\ best_count = 0
    /\ log = <<>>
    /\ WorkersIdle
    /\ text = <<>>
    /\ token_count = SumFreq(words)
    /\ stderr = <<>>
    /\ vocab_cap = MAX_VOCAB_SIZE

Init == InitWith(SmallVocabularies \cup {ScenarioWords}, 0..MaxMerges)

-----------------------------------------------------------------------------
(* main: convert_vocab_to_subwords(); bpe_subword_merge(num_merges); *)

Convert ==
    /\ pc = "Convert"
    /\ vocabulary' = convert_vocab_to_subwords(vocabulary)
    /\ merge_iter' = 0
    /\ pc' = "LoopTest"
    /\ UNCHANGED <<i, map, map_state>>
    /\ UNCHANGED <<frameVars, scanVars, selectVars, workerVars>>

\* loop test passes: create_bpe_hashmap(), start the counting pass
LoopEnter ==
    /\ pc = "LoopTest"
    /\ LoopGuard(merge_iter, num_merges)
    /\ map' = EmptyTable
    /\ map_state' = "live"
    /\ i' = 0
    /\ pc' = "Counting"
    /\ UNCHANGED <<vocabulary, merge_iter>>
    /\ UNCHANGED <<frameVars, scanVars, selectVars, workerVars>>

LoopExit ==
    /\ pc = "LoopTest"
    /\ ~LoopGuard(merge_iter, num_merges)
    /\ pc' = "Done"
    /\ UNCHANGED <<vocabulary, merge_iter, i, map, map_state>>
    /\ UNCHANGED <<frameVars, scanVars, selectVars, workerVars>>

\* (mutation: wcstok works on the entry itself, which it cuts after the
\* first symbol)
CountBeginInPlace ==
    /\ pc = "Counting"
    /\ i < vocab_size
    /\ word_copy' = vocabulary[i + 1].token
    /\ LET r == wcstok(vocabulary[i + 1].token, 1)
       IN  /\ token' = r.token /\ wcs_save' = r.save
           /\ vocabulary' = [vocabulary EXCEPT ![i + 1].token = r.token]
    /\ symbols' = <<>>
    /\ pc' = "Splitting"
    /\ UNCHANGED <<merge_iter, i, j, reps, new_token, first, map, map_state>>
    /\ UNCHANGED <<frameVars, selectVars, workerVars>>

\* word_copy = wcsdup(vocabulary[i].token); token = wcstok(word_copy, L" ", NULL);
CountBegin ==
    /\ pc = "Counting"
    /\ i < vocab_size
    /\ word_copy' = vocabulary[i + 1].token
    /\ LET r == wcstok(vocabulary[i + 1].token, 1)
       IN  token' = r.token /\ wcs_save' = r.save
    /\ symbols' = <<>>
    /\ pc' = "Splitting"
    /\ UNCHANGED <<vocabulary, merge_iter, i, j, reps, new_token, first, map,
                   map_state>>
    /\ UNCHANGED <<frameVars, selectVars, workerVars>>

\* symbols[symbol_count++] = token; token = wcstok(NULL, L" ", NULL);
SplitStep ==
    /\ pc = "Splitting"
    /\ SplitGuard(token, Len(symbols))
    /\ symbols' = Append(symbols, token)
    /\ LET r == wcstok(word_copy, wcs_save)
       IN  token' = r.token /\ wcs_save' = r.save
    /\ UNCHANGED <<vocabulary, merge_iter, pc, i, word_copy, j, reps, new_token,
                   first, map, map_state>>
    /\ UNCHANGED <<frameVars, selectVars, workerVars>>

SplitEnd ==
    /\ pc = "Splitting"
    /\ ~SplitGuard(token, Len(symbols))
    /\ j' = 0
    /\ reps' = 0
    /\ pc' = "Pairing"
    /\ UNCHANGED <<vocabulary, merge_iter, i, word_copy, wcs_save, token, symbols,
                   new_token, first, map, map_state>>
    /\ UNCHANGED <<frameVars, selectVars, workerVars>>

\* swprintf(pair, ..., symbols[j], symbols[j+1]); add_pair(map, pair, i);
PairStep ==
    /\ pc = "Pairing"
    /\ j < Len(symbols) - 1
    /\ reps < vocabulary[i + 1].freq
    /\ map' = add_pair(map, PairKey(symbols[j + 1], symbols[j + 2]), i)
    /\ reps' = reps + 1
    /\ UNCHANGED <<vocabulary, merge_iter, pc, i, word_copy, wcs_save, token,
                   symbols, j, new_token, first, map_state>>
    /\ UNCHANGED <<frameVars, selectVars, workerVars>>

\* the k loop is over: j++
PairNext ==
    /\ pc = "Pairing"
    /\ j < Len(symbols) - 1
    /\ ~(reps < vocabulary[i + 1].freq)
    /\ j' = j + 1
    /\ reps' = 0
    /\ UNCHANGED <<vocabulary, merge_iter, pc, i, word_copy, wcs_save, token,
                   symbols, new_token, first, map, map_state>>
    /\ UNCHANGED <<frameVars, selectVars, workerVars>>

\* free(word_copy); i++
PairEnd ==
    /\ pc = "Pairing"
    /\ ~(j < Len(symbols) - 1)
    /\ i' = i + 1
    /\ pc' = "Counting"
    /\ UNCHANGED <<vocabulary, merge_iter, map, map_state>>
    /\ UNCHANGED <<frameVars, scanVars, selectVars, workerVars>>

CountEnd ==
    /\ pc = "Counting"
    /\ ~(i < vocab_size)
    /\ pc' = "Selecting"
    /\ UNCHANGED <<vocabulary, merge_iter, i, map, map_state>>
    /\ UNCHANGED <<frameVars, scanVars, selectVars, workerVars>>

\* (mutation: the break is taken before free_bpe_hashmap)
SelectStopLeak ==
    /\ pc = "Selecting"
    /\ LET best == find_most_frequent_pair(map)
       IN  /\ NoMorePairs(best.best_count)
           /\ best_pair' = best.best_pair
           /\ best_count' = best.best_count
    /\ pc' = "Done"
    /\ UNCHANGED <<vocabulary, merge_iter, i, log, map, map_state>>
    /\ UNCHANGED <<frameVars, scanVars, workerVars>>

\* find_most_frequent_pair, free_bpe_hashmap, then the break
SelectStop ==
    /\ pc = "Selecting"
    /\ LET best == find_most_frequent_pair(map)
       IN  /\ NoMorePairs(best.best_count)
           /\ best_pair' = best.best_pair
           /\ best_count' = best.best_count
    /\ map' = EmptyTable
    /\ map_state' = "freed"
    /\ pc' = "Done"
    /\ UNCHANGED <<vocabulary, merge_iter, i, log>>
    /\ UNCHANGED <<frameVars, scanVars, workerVars>>

\* find_most_frequent_pair, free_bpe_hashmap, then the "[INFO] Subword Merge" line
SelectMerge ==
    /\ pc = "Selecting"
    /\ LET best == find_most_frequent_pair(map)
       IN  /\ ~NoMorePairs(best.best_count)
           /\ best_pair' = best.best_pair
           /\ best_count' = best.best_count
           /\ log' = Append(log, [iter |-> merge_iter + 1,
                                  pair |-> best.best_pair,
                                  count |-> best.best_count])
    /\ map' = EmptyTable
    /\ map_state' = "freed"
    /\ i' = 0
    /\ pc' = "Merging"
    /\ UNCHANGED <<vocabulary, merge_iter>>
    /\ UNCHANGED <<frameVars, scanVars, workerVars>>

\* new_token[0] = 0; copy = wcsdup(old_token); sym = wcstok(copy, L" ", NULL);
MergeBegin ==
    /\ pc = "Merging"
    /\ i < vocab_size
    /\ new_token' = <<>>
    /\ first' = TRUE
    /\ word_copy' = vocabulary[i + 1].token
    /\ LET r == wcstok(vocabulary[i + 1].token, 1)
       IN  token' = r.token /\ wcs_save' = r.save
    /\ pc' = "Rewriting"
    /\ UNCHANGED <<vocabulary, merge_iter, i, symbols, j, reps, map, map_state>>
    /\ UNCHANGED <<frameVars, selectVars, workerVars>>

\* one turn of the while loop whose wcscat calls stay inside new_token
MergeStep ==
    /\ pc = "Rewriting"
    /\ token # <<>>
    /\ LET r == MergeIter(word_copy, token, wcs_save,
                          [new_token |-> new_token, first |-> first], best_pair)
       IN  /\ FitsNewToken(r.new_token)
           /\ new_token' = r.new_token
           /\ token' = r.sym
           /\ wcs_save' = r.save
    /\ first' = FALSE
    /\ UNCHANGED <<vocabulary, merge_iter, pc, i, word_copy, symbols, j, reps,
                   map, map_state>>
    /\ UNCHANGED <<frameVars, selectVars, workerVars>>

\* free(copy); updated = wcsdup(new_token); vocabulary[i].token = updated; i++
MergeStore ==
    /\ pc = "Rewriting"
    /\ token = <<>>
    /\ vocabulary' = [vocabulary EXCEPT
                        ![i + 1] = RewriteEntry(vocabulary[i + 1], new_token)]
    /\ i' = i + 1
    /\ pc' = "Merging"
    /\ UNCHANGED <<merge_iter, map, map_state>>
    /\ UNCHANGED <<frameVars, scanVars, selectVars, workerVars>>

MergeEnd ==
    /\ pc = "Merging"
    /\ ~(i < vocab_size)
    /\ merge_iter' = merge_iter + 1
    /\ pc' = "LoopTest"
    /\ UNCHANGED <<vocabulary, i, map, map_state>>
    /\ UNCHANGED <<frameVars, scanVars, selectVars, workerVars>>

Next ==
    \/ Convert
    \/ LoopEnter
    \/ LoopExit
    \/ CountBegin
    \/ SplitStep
    \/ SplitEnd
    \/ PairStep
    \/ PairNext
    \/ PairEnd
    \/ CountEnd
    \/ SelectStop
    \/ SelectMerge
    \/ MergeBegin
    \/ MergeStep
    \/ MergeStore
    \/ MergeEnd

Spec == Init /\ [][Next]_vars

\* the main thread is the only one and runs until main returns
FairSpec == Spec /\ WF_vars(Next)

-----------------------------------------------------------------------------
(* Words longer than the fixed buffers.  A wcscat past the end of          *)
(* new_token[MAX_TOKEN_LEN] has no defined outcome: pc = "Undefined"       *)
(* stands for whatever the build does from there on.                       *)

\* a word of MAX_SYMBOLS + 1 characters
LongWord == [n \in 1..(MAX_SYMBOLS + 1) |-> 97]

LongVocabularies ==
    { VocabOf(<<LongWord>>, <<1>>),
      VocabOf(<< LongWord, <<97, 98>> >>, <<1, 2>>),
      VocabOf(<< <<97, 97, 97>>, LongWord >>, <<2, 1>>) }

InitLong == InitWith(SmallVocabularies \cup LongVocabularies, 0..MaxMerges)

MergeOverflow ==
    /\ pc = "Rewriting"
    /\ token # <<>>
    /\ ~FitsNewToken(MergeIter(word_copy, token, wcs_save,
                               [new_token |-> new_token, first |-> first],
                               best_pair).new_token)
    /\ pc' = "Undefined"
    /\ UNCHANGED <<vocabulary, merge_iter, i, map, map_state>>
    /\ UNCHANGED <<frameVars, scanVars, selectVars, workerVars>>

NextLong == Next \/ MergeOverflow

SpecLong == InitLong /\ [][NextLong]_vars

-----------------------------------------------------------------------------
(* add_pair called by several threads on one table, step by step.  The     *)
(* program itself calls add_pair from the main thread only; this is the    *)
(* use the per-bucket mutexes provide for.                                 *)

Workers == {1, 2}

\* "a b"; "a bab" and "ab ba", which hash to the same bucket
ConcKeys == { <<97, 32, 98>>, <<97, 32, 98, 97, 98>>, <<97, 98, 32, 98, 97>> }

CallLists == UNION {[1..n -> ConcKeys] : n \in 0..MaxCalls}

\* the argument of worker w's current call
CurrentPair(w) == wcalls[w][returned[w] + 1]

\* (mutation: the lock is taken whether or not it is held)
MutexFreeAlways(held, index) == TRUE

\* pthread_mutex_lock returns once the mutex is not held by another thread
MutexFree(held, index) == index \notin held

InitConc ==
    /\ words = <<>>
    /\ vocabulary = <<>>
    /\ vocab_size = 0
    /\ num_merges = 1
    /\ merge_iter = 0
    /\ pc = "Workers"
    /\ i = 0
    /\ word_copy = <<>>
    /\ wcs_save = 1
    /\ token = <<>>
    /\ symbols = <<>>
    /\ j = 0
    /\ reps = 0
    /\ new_token = <<>>
    /\ first = TRUE
    /\ map = EmptyTable
    /\ map_state = "live"
    /\ best_pair = <<>>
    /\ best_count = 0
    /\ log = <<>>
    /\ wpc = [w \in Workers |-> "idle"]
    /\ wcalls \in [Workers -> CallLists]
    /\ wentry = [w \in Workers |-> 0]
    /\ mutexes = {}
    /\ returned = [w \in Workers |-> 0]
    /\ text = <<>>
    /\ token_count = 0
    /\ stderr = <<>>
    /\ vocab_cap = MAX_VOCAB_SIZE

concFrame == <<vocabulary, vocab_size, num_merges, merge_iter, i, map_state, log,
               words, scanVars, text, token_count, stderr,
               vocab_cap>>

\* index = hash(pair); pthread_mutex_lock(...); entry = map->table[index];
WLock(w) ==
    /\ wpc[w] = "idle"
    /\ returned[w] < Len(wcalls[w])
    /\ MutexFree(mutexes, hash(CurrentPair(w)))
    /\ mutexes' = mutexes \cup {hash(CurrentPair(w))}
    /\ wentry' = [wentry EXCEPT ![w] = 1]
    /\ wpc' = [wpc EXCEPT ![w] = "scan"]
    /\ UNCHANGED <<pc, map, best_pair, best_count, wcalls, returned, concFrame>>

\* wcscmp(entry->pair, pair) != 0: entry = entry->next;
WScanNext(w) ==
    /\ wpc[w] = "scan"
    /\ wentry[w] <= Len(Chain(map, hash(CurrentPair(w))))
    /\ Chain(map, hash(CurrentPair(w)))[wentry[w]].pair # CurrentPair(w)
    /\ wentry' = [wentry EXCEPT ![w] = @ + 1]
    /\ UNCHANGED <<pc, map, best_pair, best_count, wpc, wcalls, mutexes, returned,
                   concFrame>>

\* wcscmp(entry->pair, pair) == 0: entry->count++;
WScanHit(w) ==
    /\ wpc[w] = "scan"
    /\ wentry[w] <= Len(Chain(map, hash(CurrentPair(w))))
    /\ Chain(map, hash(CurrentPair(w)))[wentry[w]].pair = CurrentPair(w)
    /\ map' = SetChain(map, hash(CurrentPair(w)),
                       IncrementEntry(Chain(map, hash(CurrentPair(w))), wentry[w]))
    /\ wpc' = [wpc EXCEPT ![w] = "unlock"]
    /\ UNCHANGED <<pc, best_pair, best_count, wcalls, wentry, mutexes, returned,
                   concFrame>>

\* entry == NULL: the new entry is linked in at the head of the chain; a
\* thread standing on an entry of that chain stays on the same entry
WInsert(w) ==
    /\ wpc[w] = "scan"
    /\ wentry[w] > Len(Chain(map, hash(CurrentPair(w))))
    /\ map' = SetChain(map, hash(CurrentPair(w)),
                       InsertHead(Chain(map, hash(CurrentPair(w))), CurrentPair(w), w))
    /\ wentry' = [v \in Workers |->
                    IF /\ v # w
                       /\ wpc[v] = "scan"
                       /\ hash(CurrentPair(v)) = hash(CurrentPair(w))
                    THEN wentry[v] + 1 ELSE wentry[v]]
    /\ wpc' = [wpc EXCEPT ![w] = "unlock"]
    /\ UNCHANGED <<pc, best_pair, best_count, wcalls, mutexes, returned, concFrame>>

\* pthread_mutex_unlock(...); return;
WUnlock(w) ==
    /\ wpc[w] = "unlock"
    /\ mutexes' = mutexes \ {hash(CurrentPair(w))}
    /\ returned' = [returned EXCEPT ![w] = @ + 1]
    /\ wpc' = [wpc EXCEPT ![w] = "idle"]
    /\ UNCHANGED <<pc, map, best_pair, best_count, wcalls, wentry, concFrame>>

AllReturned == \A w \in Workers : wpc[w] = "idle" /\ returned[w] = Len(wcalls[w])

\* the counting pass is over: find_most_frequent_pair(map, best_pair, &best_count)
FindMost ==
    /\ pc = "Workers"
    /\ AllReturned
    /\ LET best == find_most_frequent_pair(map)
       IN  best_pair' = best.best_pair /\ best_count' = best.best_count
    /\ pc' = "Found"
    /\ UNCHANGED <<map, concFrame, workerVars>>

NextConc ==
    \/ \E w \in Workers : WLock(w)
    \/ \E w \in Workers : WScanNext(w)
    \/ \E w \in Workers : WScanHit(w)
    \/ \E w \in Workers : WInsert(w)
    \/ \E w \in Workers : WUnlock(w)
    \/ FindMost

SpecConc == InitConc /\ [][NextConc]_vars

-----------------------------------------------------------------------------
(* tokenize: the loop that hands every token of the text, lowercased, to   *)
(* add_to_vocabulary, followed by the rest of main.                        *)

\* towlower, on the letters of the texts below
towlower(c) == IF c \in 65..90 THEN c + 32 ELSE c

to_lowercase(str) == [k \in 1..Len(str) |-> towlower(str[k])]

\* (mutation: the lookup finds nothing)
ScanVocabNever(v, size, tok) == 0

\* for (i = 0; i < vocab_size; i++) if (wcscmp(vocabulary[i].token, token) == 0):
\* the position of the first entry with the token, 0 if none
ScanVocab(v, size, tok) ==
    IF \E k \in 1..size : v[k].token = tok
    THEN CHOOSE k \in 1..size :
            /\ v[k].token = tok
            /\ \A q \in 1..(k - 1) : v[q].token # tok
    ELSE 0

\* (mutation: ids start at 1)
NewEntryOneBased(tok, size) == [token |-> tok, id |-> size + 1, freq |-> 1]

\* token = dup_token; id = vocab_size; freq = 1;
NewEntry(tok, size) == [token |-> tok, id |-> size, freq |-> 1]

\* the store and its size after add_to_vocabulary(tok), allocations succeeding
add_to_vocabulary(v, size, tok) ==
    LET k == ScanVocab(v, size, tok)
    IN  IF k > 0
        THEN [vocabulary |-> [v EXCEPT ![k].freq = @ + 1], vocab_size |-> size]
        ELSE IF size < vocab_cap
             THEN [vocabulary |-> Append(v, NewEntry(tok, size)),
                   vocab_size |-> size + 1]
             ELSE [vocabulary |-> v, vocab_size |-> size]

\* the tokens of the texts: "a", "A", "b", "ab", "abab"
TextTokens == { <<97>>, <<65>>, <<98>>, <<97, 98>>, <<97, 98, 97, 98>> }

Texts == UNION {[1..n -> TextTokens] : n \in 0..MaxText}

\* main calls tokenize on a text, in a build with the given MAX_VOCAB_SIZE
InitTokenize(cap, budgets) ==
    /\ words = <<>>
    /\ vocabulary = <<>>
    /\ vocab_size = 0
    /\ num_merges \in budgets
    /\ merge_iter = 0
    /\ pc = "Tokenize"
    /\ i = 0
    /\ word_copy = <<>>
    /\ wcs_save = 1
    /\ token = <<>>
    /\ symbols = <<>>
    /\ j = 0
    /\ reps = 0
    /\ new_token = <<>>
    /\ first = TRUE
    /\ map = EmptyTable
    /\ map_state = "none"
    /\ best_pair = <<>>
    /\ best_count = 0
    /\ log = <<>>
    /\ WorkersIdle
    /\ text \in Texts
    /\ token_count = 0
    /\ stderr = <<>>
    /\ vocab_cap = cap

InitText == InitTokenize(MAX_VOCAB_SIZE, 0..MaxMerges)

tokFrame == <<num_merges, merge_iter, i, word_copy, wcs_save, symbols, j, reps,
              new_token, first, map, map_state, selectVars, workerVars, vocab_cap>>

\* one turn of while (token && count < MAX_TOKENS): to_lowercase(token);
\* add_to_vocabulary(token); count++; token = wcstok(NULL, delims, NULL);
TokenizeStep ==
    /\ pc = "Tokenize"
    /\ text # <<>>
    /\ token_count < MAX_TOKENS
    /\ token' = to_lowercase(Head(text))
    /\ LET r == add_to_vocabulary(vocabulary, vocab_size, to_lowercase(Head(text)))
       IN  vocabulary' = r.vocabulary /\ vocab_size' = r.vocab_size
    /\ token_count' = token_count + 1
    /\ text' = Tail(text)
    /\ UNCHANGED <<pc, words, stderr, tokFrame>>

\* wcstok returns NULL or count has reached MAX_TOKENS: tokenize returns,
\* main goes on to convert_vocab_to_subwords
TokenizeEnd ==
    /\ pc = "Tokenize"
    /\ text = <<>> \/ ~(token_count < MAX_TOKENS)
    /\ words' = vocabulary
    /\ token' = <<>>
    /\ text' = <<>>
    /\ pc' = "Convert"
    /\ UNCHANGED <<vocabulary, vocab_size, token_count, stderr, tokFrame>>

NextText == TokenizeStep \/ TokenizeEnd \/ Next

SpecText == InitText /\ [][NextText]_vars

-----------------------------------------------------------------------------
(* The program built with MAX_VOCAB_SIZE set to MaxStore, so that the      *)
(* texts above fill the store.                                             *)

InitCap == InitTokenize(MaxStore, 0..MaxMerges)

SpecCap == InitCap /\ [][NextText]_vars

-----------------------------------------------------------------------------
(* The same program when malloc, calloc, realloc or wcsdup may return NULL *)
(* in create_bpe_hashmap, add_pair and add_to_vocabulary.                  *)

ReallocFailed == "Error: realloc failed in add_to_vocabulary"
WcsdupFailed == "Error: wcsdup failed in add_to_vocabulary"
AddPairFailed == "Error: malloc failed in add_pair"
CreateFailed == { "Error: malloc failed for BPE_HashMap",
                  "Error: calloc failed for hash table",
                  "Error: malloc failed for mutexes" }

\* add_to_vocabulary of a new token below capacity: realloc returns NULL
\* (nothing changes), or wcsdup does (the array has grown, vocab_size has not)
TokenizeStepFail ==
    /\ pc = "Tokenize"
    /\ text # <<>>
    /\ token_count < MAX_TOKENS
    /\ Len(stderr) < MaxFails
    /\ ScanVocab(vocabulary, vocab_size, to_lowercase(Head(text))) = 0
    /\ vocab_size < vocab_cap
    /\ token' = to_lowercase(Head(text))
    /\ \E line \in {ReallocFailed, WcsdupFailed} : stderr' = Append(stderr, line)
    /\ token_count' = token_count + 1
    /\ text' = Tail(text)
    /\ UNCHANGED <<vocabulary, vocab_size, pc, words, tokFrame>>

\* add_pair of a key that has no entry: malloc returns NULL, the mutex is
\* released and add_pair returns; the k loop goes on
PairStepFail ==
    /\ pc = "Pairing"
    /\ j < Len(symbols) - 1
    /\ reps < vocabulary[i + 1].freq
    /\ Len(stderr) < MaxFails
    /\ LET pair == PairKey(symbols[j + 1], symbols[j + 2])
       IN  ScanChain(Chain(map, hash(pair)), pair) = 0
    /\ stderr' = Append(stderr, AddPairFailed)
    /\ reps' = reps + 1
    /\ UNCHANGED <<vocabulary, merge_iter, pc, i, word_copy, wcs_save, token,
                   symbols, j, new_token, first, map, map_state>>
    /\ UNCHANGED <<vocab_size, num_merges, words, text, token_count, vocab_cap,
                   selectVars, workerVars>>

\* create_bpe_hashmap: an allocation returns NULL, exit(1)
LoopEnterFail ==
    /\ pc = "LoopTest"
    /\ LoopGuard(merge_iter, num_merges)
    /\ Len(stderr) < MaxFails
    /\ \E line \in CreateFailed : stderr' = Append(stderr, line)
    /\ pc' = "Exited"
    /\ UNCHANGED <<vocabulary, merge_iter, i, map, map_state>>
    /\ UNCHANGED <<vocab_size, num_merges, words, text, token_count, vocab_cap,
                   scanVars, selectVars, workerVars>>

NextAlloc == NextText \/ TokenizeStepFail \/ PairStepFail \/ LoopEnterFail

SpecAlloc == InitText /\ [][NextAlloc]_vars

-----------------------------------------------------------------------------
(* Reference notions the properties are stated with: symbols read off a    *)
(* surface form by position, and the table read as a set of entries.       *)

\* positions at which a symbol of surface form s starts
Starts(s) == {k \in 1..Len(s) : s[k] # SP /\ (k = 1 \/ s[k - 1] = SP)}

\* the symbol that starts at position k
SymAt(s, k) ==
    LET e == CHOOSE x \in k..Len(s) :
                /\ \A q \in k..x : s[q] # SP
                /\ x = Len(s) \/ s[x + 1] = SP
    IN  SubSeq(s, k, e)

\* 1 for the first symbol, 2 for the second, ...
Rank(s, k) == Cardinality({q \in Starts(s) : q <= k})

\* the symbol sequence of s
RefSymbols(s) ==
    [n \in 1..Cardinality(Starts(s)) |->
        SymAt(s, CHOOSE k \in Starts(s) : Rank(s, k) = n)]

\* symbols n, n + 1, ... joined with the separator
RECURSIVE RefJoinFrom(_, _)
RefJoinFrom(syms, n) ==
    IF n > Len(syms) THEN <<>>
    ELSE IF n = Len(syms) THEN syms[n]
         ELSE syms[n] \o <<SP>> \o RefJoinFrom(syms, n + 1)

RefJoin(syms) == RefJoinFrom(syms, 1)

\* left-to-right greedy non-overlapping replacement of (A, B) by AB, from
\* symbol n on
RECURSIVE RefMergeFrom(_, _, _, _)
RefMergeFrom(syms, n, A, B) ==
    IF n > Len(syms) THEN <<>>
    ELSE IF n < Len(syms) /\ syms[n] = A /\ syms[n + 1] = B
         THEN <<A \o B>> \o RefMergeFrom(syms, n + 2, A, B)
         ELSE <<syms[n]>> \o RefMergeFrom(syms, n + 1, A, B)

RefMerge(syms, A, B) == RefMergeFrom(syms, 1, A, B)

\* how many times that replacement fuses
RECURSIVE RefFusionsFrom(_, _, _, _)
RefFusionsFrom(syms, n, A, B) ==
    IF n >= Len(syms) THEN 0
    ELSE IF syms[n] = A /\ syms[n + 1] = B
         THEN 1 + RefFusionsFrom(syms, n + 2, A, B)
         ELSE RefFusionsFrom(syms, n + 1, A, B)

RefFusions(syms, A, B) == RefFusionsFrom(syms, 1, A, B)

\* (A, B) occurs somewhere in syms
Occurs(syms, A, B) ==
    \E n \in 1..(Len(syms) - 1) : syms[n] = A /\ syms[n + 1] = B

\* the two symbols of a pair key
KeyA(key) == RefSymbols(key)[1]
KeyB(key) == RefSymbols(key)[2]

\* the entries of the table, by bucket and chain position
Slots(m) == UNION {{<<b, k>> : k \in 1..Len(m[b])} : b \in DOMAIN m}

\* the greatest count in the table, 0 when it is empty
MaxCount(m) ==
    IF Slots(m) = {} THEN 0
    ELSE LET c == {m[x[1]][x[2]].count : x \in Slots(m)}
         IN  CHOOSE x \in c : \A y \in c : y <= x

\* the store right after subword seeding
Seeded == [k \in 1..Len(words) |->
             [token |-> SubwordForm(words[k].token),
              id |-> words[k].id, freq |-> words[k].freq]]

Tokens(v) == [k \in 1..Len(v) |-> v[k].token]

-----------------------------------------------------------------------------
(* C1 *)

ScenarioRun == words = ScenarioWords /\ num_merges = 1 /\ pc = "Done"

\* C1, as claimed: on the store l o w :5, l o w e r :2, n e w e s t :6,
\* w i d e s t :3 with one merge allowed, the pair logged is "e s" with count 9
\* and the store ends as l o w, l o w e r, n e w es t, w i d es t.
C1_Claimed ==
    ScenarioRun =>
        /\ log = << [iter |-> 1, pair |-> <<101, 32, 115>>, count |-> 9] >>
        /\ Tokens(vocabulary) =
              << <<108, 32, 111, 32, 119>>,
                 <<108, 32, 111, 32, 119, 32, 101, 32, 114>>,
                 <<110, 32, 101, 32, 119, 32, 101, 115, 32, 116>>,
                 <<119, 32, 105, 32, 100, 32, 101, 115, 32, 116>> >>

\* C1, amended: on that store with one merge allowed, the pair logged is "s t"
\* with count 9 ("e s" has count 9 too, but its bucket 8157 comes after bucket
\* 3404 of "s t"), and the store ends as l o w :5, l o w e r :2, n e w e st :6,
\* w i d e st :3.
C1_Scenario ==
    ScenarioRun =>
        /\ log = << [iter |-> 1, pair |-> <<115, 32, 116>>, count |-> 9] >>
        /\ Tokens(vocabulary) =
              << <<108, 32, 111, 32, 119>>,
                 <<108, 32, 111, 32, 119, 32, 101, 32, 114>>,
                 <<110, 32, 101, 32, 119, 32, 101, 32, 115, 116>>,
                 <<119, 32, 105, 32, 100, 32, 101, 32, 115, 116>> >>
        /\ [k \in 1..Len(vocabulary) |-> vocabulary[k].freq] = <<5, 2, 6, 3>>
        /\ hash(<<115, 32, 116>>) < hash(<<101, 32, 115>>)

C1_Witness == ScenarioRun /\ Len(log) = 1 /\ merge_iter = 1

-----------------------------------------------------------------------------
(* C2 *)

-----------------------------------------------------------------------------
(* C3 *)

\* C3: the number of entries and every entry's id and frequency are what they
\* were before the merge passes, whatever the number of iterations run.
C3_Frame ==
    /\ vocab_size = Len(words)
    /\ Len(vocabulary) = Len(words)
    /\ \A k \in 1..Len(words) :
          /\ vocabulary[k].id = words[k].id
          /\ vocabulary[k].freq = words[k].freq

C3_Witness ==
    /\ pc = "Done"
    /\ Len(log) = 2
    /\ \E k \in 1..Len(words) :
          /\ words[k].freq = 2
          /\ vocabulary[k].token # Seeded[k].token

-----------------------------------------------------------------------------
(* C4 *)

\* C4: the surface form a merge pass stores for an entry is the greedy
\* left-to-right non-overlapping replacement of (A, B) by AB in the entry's
\* symbol sequence, joined with the separator.
C4_Greedy ==
    [][(pc = "Rewriting" /\ pc' = "Merging")
          => vocabulary'[i + 1].token =
                RefJoin(RefMerge(RefSymbols(vocabulary[i + 1].token),
                                 KeyA(best_pair), KeyB(best_pair)))]_vars

\* [a, b, a, b] with pair (a, b) has become [ab, ab]
C4_Witness ==
    /\ pc = "Done"
    /\ \E k \in 1..Len(words) :
          /\ words[k].token = <<97, 98, 97, 98>>
          /\ vocabulary[k].token = <<97, 98, 32, 97, 98>>
    /\ \E k \in 1..Len(words) :
          /\ words[k].token = <<97, 97, 97>>
          /\ vocabulary[k].token # Seeded[k].token

-----------------------------------------------------------------------------
(* C5 *)

IsStart(s, x) == s[x] # SP /\ (x = 1 \/ s[x - 1] = SP)

\* where the symbol after the one at k starts, 0 when there is none
NextStart(s, k) ==
    LET later == {x \in (k + 1)..Len(s) : IsStart(s, x)}
    IN  IF later = {} THEN 0 ELSE CHOOSE x \in later : \A y \in later : x <= y

\* the positions of s that start a symbol followed by another symbol
PairStarts(s) == {k \in Starts(s) : NextStart(s, k) # 0}

\* "X Y" for the symbol X at k and the symbol Y after it
KeyAt(s, k) == SymAt(s, k) \o <<SP>> \o SymAt(s, NextStart(s, k))

\* the number of positions n < cap at which symbol n and symbol n + 1 of s
\* make the key
Positions(s, key, cap) ==
    Cardinality({k \in PairStarts(s) : Rank(s, k) < cap /\ KeyAt(s, k) = key})

\* cap 0 stands for no cap
RECURSIVE WeightedFrom(_, _, _, _)
WeightedFrom(v, n, key, cap) ==
    IF n > Len(v) THEN 0
    ELSE v[n].freq * Positions(v[n].token, key,
                               IF cap = 0 THEN Len(v[n].token) + 1 ELSE cap)
         + WeightedFrom(v, n + 1, key, cap)

Weighted(v, key, cap) == WeightedFrom(v, 1, key, cap)

StoreKeys(v) ==
    UNION {{KeyAt(v[n].token, k) : k \in PairStarts(v[n].token)} : n \in 1..Len(v)}

TableKeys(m) == {m[x[1]][x[2]].pair : x \in Slots(m)}

EntriesOf(m, key) == {x \in Slots(m) : m[x[1]][x[2]].pair = key}

\* the count the table holds for the key: 0 when it has no entry
CountOf(m, key) ==
    IF EntriesOf(m, key) = {} THEN 0
    ELSE LET x == CHOOSE y \in EntriesOf(m, key) : TRUE
         IN  m[x[1]][x[2]].count

\* the table holds exactly the weighted sums: one entry per key with a
\* non-zero sum, none for the others
Counted(m, v, cap) ==
    \A key \in StoreKeys(v) \cup TableKeys(m) :
        /\ Cardinality(EntriesOf(m, key)) <= 1
        /\ CountOf(m, key) = Weighted(v, key, cap)
        /\ key \in TableKeys(m) <=> Weighted(v, key, cap) > 0

\* C5, as claimed: after the counting pass the count of every key "X Y" is
\* the sum over the entries of frequency times the number of positions at
\* which X is followed by Y, and keys with sum 0 are absent.
C5_Claimed == pc = "Selecting" => Counted(map, vocabulary, 0)

\* C5, amended: the same, with the positions taken among the first
\* MAX_SYMBOLS symbols of each entry only.
C5_SymbolCap == pc = "Selecting" => Counted(map, vocabulary, MAX_SYMBOLS)

\* the pass has counted an entry of more than MAX_SYMBOLS symbols next to an
\* entry of two symbols
C5_Witness ==
    /\ pc = "Selecting"
    /\ Len(vocabulary) = 2
    /\ Cardinality(Starts(vocabulary[1].token)) > MAX_SYMBOLS
    /\ CountOf(map, <<97, SP, 97>>) = MAX_SYMBOLS - 1
    /\ CountOf(map, <<97, SP, 98>>) = vocabulary[2].freq

-----------------------------------------------------------------------------
(* C6 *)

\* slot x is visited before slot y: lower bucket, or same bucket and nearer
\* the head of the chain
Before(x, y) == x[1] < y[1] \/ (x[1] = y[1] /\ x[2] <= y[2])

\* the first slot, in visiting order, among those with the greatest count
FirstMax(m) ==
    LET top == {x \in Slots(m) : m[x[1]][x[2]].count = MaxCount(m)}
    IN  CHOOSE x \in top : \A y \in top : Before(x, y)

\* C6: find_most_frequent_pair returns the greatest count in the table with
\* the key of the first entry, in bucket-then-chain order, that has it; on an
\* empty table it returns count 0 and the empty key.
C6_FirstMaximum ==
    pc = "Found" =>
        IF Slots(map) = {}
        THEN best_count = 0 /\ best_pair = <<>>
        ELSE /\ best_count = MaxCount(map)
             /\ best_pair = map[FirstMax(map)[1]][FirstMax(map)[2]].pair

\* two entries of one chain share the greatest count, a third entry in
\* another bucket has it too
C6_Witness ==
    /\ pc = "Found"
    /\ \E x, y, z \in Slots(map) :
          /\ x[1] = y[1] /\ x[2] < y[2] /\ z[1] # x[1]
          /\ \A u \in {x, y, z} : map[u[1]][u[2]].count = MaxCount(map)
    /\ best_count = MaxCount(map)

-----------------------------------------------------------------------------
(* C7 *)

\* the number of calls for the key in a call list
RECURSIVE CallsIn(_, _)
CallsIn(calls, key) ==
    IF calls = <<>> THEN 0
    ELSE (IF Head(calls) = key THEN 1 ELSE 0) + CallsIn(Tail(calls), key)

RECURSIVE CallsOf(_, _)
CallsOf(ws, key) ==
    IF ws = {} THEN 0
    ELSE LET w == CHOOSE x \in ws : TRUE
         IN  CallsIn(wcalls[w], key) + CallsOf(ws \ {w}, key)

\* C7: whatever the interleaving of the workers' lock, scan, insert and unlock
\* steps, a key never has two entries, and once every call has returned each
\* key's count is the number of calls made for it.
C7_Serialized ==
    /\ \A key \in ConcKeys : Cardinality(EntriesOf(map, key)) <= 1
    /\ AllReturned =>
          \A key \in ConcKeys : CountOf(map, key) = CallsOf(Workers, key)

\* both workers have added the same key and keys of one bucket, and all
\* their calls have returned
C7_Witness ==
    /\ AllReturned
    /\ \E key \in ConcKeys :
          /\ \A w \in Workers : CallsIn(wcalls[w], key) >= 1
          /\ CountOf(map, key) = CallsOf(Workers, key)
    /\ \E x \in Slots(map) : x[2] = 2

-----------------------------------------------------------------------------
(* C8 *)

\* the table after the calls of a list, one after the other
RECURSIVE AfterCalls(_, _, _)
AfterCalls(m, calls, id) ==
    IF calls = <<>> THEN m
    ELSE CHOOSE r \in {AfterCalls(v, Tail(calls), id) :
                          v \in {add_pair(m, Head(calls), id)}} : TRUE

\* the table when worker 1 makes all its calls before worker 2 makes any
SerialTable == AfterCalls(AfterCalls(EmptyTable, wcalls[1], 1), wcalls[2], 2)

\* C8, as claimed: the pair find_most_frequent_pair returns depends on the
\* multiset of add_pair calls only, not on the order they arrive in.
C8_Claimed ==
    pc = "Found" => best_pair = find_most_frequent_pair(SerialTable).best_pair

-----------------------------------------------------------------------------
(* C9 *)

\* C9, as claimed: an entry in which the pair occurs loses exactly one symbol
\* in the pass, any other entry keeps its number of symbols.
C9_Claimed ==
    [][(pc = "Rewriting" /\ pc' = "Merging")
          => LET before == RefSymbols(vocabulary[i + 1].token)
                 after == RefSymbols(vocabulary'[i + 1].token)
             IN  IF Occurs(before, KeyA(best_pair), KeyB(best_pair))
                 THEN Len(after) = Len(before) - 1
                 ELSE Len(after) = Len(before)]_vars

\* C9, amended: an entry loses one symbol for every non-overlapping occurrence
\* of the pair (counted left to right), so at least one where the pair occurs,
\* and keeps its number of symbols where the pair does not occur.
C9_SymbolCount ==
    [][(pc = "Rewriting" /\ pc' = "Merging")
          => LET before == RefSymbols(vocabulary[i + 1].token)
                 after == RefSymbols(vocabulary'[i + 1].token)
                 n == RefFusions(before, KeyA(best_pair), KeyB(best_pair))
             IN  /\ Len(after) = Len(before) - n
                 /\ Occurs(before, KeyA(best_pair), KeyB(best_pair)) <=> n >= 1]_vars

\* an entry that has just lost two symbols in one pass
C9_Witness ==
    /\ pc = "Merging"
    /\ i >= 1
    /\ merge_iter = 0
    /\ Len(RefSymbols(vocabulary[i].token)) + 2 = Len(words[i].token)

-----------------------------------------------------------------------------
(* C10 *)

\* C10: the loop reaches Done, never having applied more than num_merges
\* merges; with num_merges = 0 the store stays as it was seeded.
C10_Terminates ==
    /\ <>(pc = "Done")
    /\ [](Len(log) <= num_merges /\ merge_iter <= num_merges)
    /\ []((num_merges = 0 /\ pc # "Convert") => vocabulary = Seeded)

C10_Witness ==
    /\ pc = "Done"
    /\ num_merges = MaxMerges
    /\ Len(log) = num_merges
    /\ vocabulary # Seeded

-----------------------------------------------------------------------------
(* C11 *)

\* C11: on an empty store, whatever num_merges is, the loop reaches Done
\* without completing an iteration, nothing is logged and the store stays
\* empty.
C11_EmptyStore ==
    /\ [](words = <<>> => <>(pc = "Done"))
    /\ [](words = <<>> => log = <<>> /\ vocabulary = <<>> /\ merge_iter = 0)

\* the empty store went through one counting pass and the break
C11_Witness ==
    /\ words = <<>>
    /\ pc = "Done"
    /\ num_merges = MaxMerges
    /\ map_state = "freed"
    /\ best_count = 0
    /\ log = <<>>

-----------------------------------------------------------------------------
(* C12 *)

\* C12: below capacity, add_to_vocabulary of a form already present adds one
\* to that entry's frequency and changes nothing else; of a new form, it
\* appends an entry with frequency 1 and id equal to the size before the
\* call.  So entry k has id k, ids grow with the order of first appearance,
\* and the frequencies add up to the number of calls.
C12_Upsert ==
    /\ [][(pc = "Tokenize" /\ pc' = "Tokenize" /\ vocab_size < vocab_cap)
            => IF \E k \in 1..Len(vocabulary) : vocabulary[k].token = token'
               THEN /\ vocab_size' = vocab_size
                    /\ Len(vocabulary') = Len(vocabulary)
                    /\ \A k \in 1..Len(vocabulary) :
                          vocabulary'[k] =
                             IF vocabulary[k].token = token'
                             THEN [vocabulary[k] EXCEPT !.freq = @ + 1]
                             ELSE vocabulary[k]
               ELSE /\ vocab_size' = vocab_size + 1
                    /\ vocabulary' = Append(vocabulary,
                                            [token |-> token', id |-> vocab_size,
                                             freq |-> 1])]_vars
    /\ [](pc = "Tokenize" =>
            /\ Len(vocabulary) = vocab_size
            /\ \A k \in 1..Len(vocabulary) : vocabulary[k].id = k - 1
            /\ SumFreq(vocabulary) = token_count)

\* three calls: a new form, the same form again, then another new form
C12_Witness ==
    /\ pc = "Tokenize"
    /\ token_count = 3
    /\ vocab_size = 2
    /\ vocabulary[1].freq = 2
    /\ vocabulary[2].freq = 1
    /\ token = vocabulary[2].token

-----------------------------------------------------------------------------
(* C13 *)

\* C13: in every state, from the first add_to_vocabulary call to the end of
\* the last merge pass, no two entries of the store have the same surface
\* form.
C13_UniqueForms ==
    \A a, b \in 1..Len(vocabulary) :
        a # b => vocabulary[a].token # vocabulary[b].token

\* a store built with a repeated word, seeded and merged
C13_Witness ==
    /\ pc = "Done"
    /\ Len(vocabulary) >= 2
    /\ token_count > Len(vocabulary)
    /\ Len(log) >= 1
    /\ vocabulary # Seeded

-----------------------------------------------------------------------------
(* C14 *)

\* C14, as claimed: once an allocation has failed in add_pair or in
\* add_to_vocabulary the run is over: the program is not tokenizing,
\* counting, selecting or merging any more.
C14_Claimed ==
    (\E k \in 1..Len(stderr) :
        stderr[k] \in {AddPairFailed, ReallocFailed, WcsdupFailed})
    => pc = "Exited"

-----------------------------------------------------------------------------
(* C15 *)

\* the call made in this step is add_to_vocabulary of a form that is not in
\* a store already holding MAX_VOCAB_SIZE entries
DroppedAtCapacity ==
    /\ pc = "Tokenize" /\ pc' = "Tokenize"
    /\ vocab_size = vocab_cap
    /\ \A k \in 1..vocab_size : vocabulary[k].token # token'

\* C15, as claimed: add_to_vocabulary of a new form on a full store leaves
\* the size and the entries as they are, and a line about it is written.
C15_Claimed ==
    [][DroppedAtCapacity =>
          /\ vocab_size' = vocab_size
          /\ vocabulary' = vocabulary
          /\ (stderr' # stderr \/ log' # log)]_vars

-----------------------------------------------------------------------------
(* C16 *)

\* C16: a table is created only when none is live, every table is destroyed
\* when selection is over, on the merge path and on the break path alike, a
\* destroyed table is not destroyed again, the table is read and written only
\* while it is live, and none is live when the loop is over.
C16_Lifecycle ==
    /\ [][/\ (pc = "LoopTest" /\ pc' = "Counting")
              => map_state # "live" /\ map_state' = "live"
          /\ (pc = "Selecting" /\ pc' # "Selecting")
              => map_state = "live" /\ map_state' = "freed"
          /\ map_state' # map_state
              => \/ pc = "LoopTest" /\ pc' = "Counting"
                 \/ pc = "Selecting" /\ pc' # "Selecting"
          /\ map' # map => map_state = "live"]_vars
    /\ [](pc \in {"Counting", "Splitting", "Pairing", "Selecting"}
            => map_state = "live")
    /\ [](pc = "Done" => map_state # "live")

\* a run that destroyed one table after a merge and the next one at the break
C16_Witness ==
    /\ pc = "Done"
    /\ map_state = "freed"
    /\ Len(log) = 1
    /\ merge_iter = 1
    /\ merge_iter < num_merges
    /\ best_count = 0

-----------------------------------------------------------------------------
(* C17 *)

\* C17: no step of the counting pass or of selection changes the store or its
\* size; the store changes only when seeding or a merge pass rewrites an
\* entry; and a second counting pass over the store as the first one left it,
\* into a fresh table, ends with the same count for every key.
C17_CountingReadsOnly ==
    /\ [][/\ pc \in {"Counting", "Splitting", "Pairing", "Selecting"}
              => vocabulary' = vocabulary /\ vocab_size' = vocab_size
          /\ vocabulary' # vocabulary => pc \in {"Convert", "Rewriting"}]_vars
    /\ [](pc = "Selecting" =>
            \A key \in TableKeys(map) \cup TableKeys(CountingPass(vocabulary)) :
                CountOf(map, key) = CountOf(CountingPass(vocabulary), key))

\* the counting pass that follows a merge is over, with several keys counted
C17_Witness ==
    /\ pc = "Selecting"
    /\ merge_iter = 1
    /\ Len(vocabulary) = 2
    /\ Cardinality(TableKeys(map)) >= 2
    /\ MaxCount(map) >= 2

-----------------------------------------------------------------------------
(* C18 *)

\* C18: in an entry the merge pass for the pair (A, B) has rewritten, A = B
\* included, no symbol A is immediately followed by a symbol B, and the same
\* merge applied to it once more gives the entry's surface form back.
C18_MergeIdempotent ==
    pc = "Merging" =>
        \A k \in 1..i :
            /\ ~Occurs(RefSymbols(vocabulary[k].token),
                       KeyA(best_pair), KeyB(best_pair))
            /\ MergeEntry(vocabulary[k].token, best_pair) = vocabulary[k].token

\* the pass for the pair (a, a) is over and has turned "a a a" into "aa a"
C18_Witness ==
    /\ pc = "Merging"
    /\ i = vocab_size
    /\ i = 2
    /\ best_pair = <<97, SP, 97>>
    /\ \E k \in 1..i : vocabulary[k].token = <<97, 97, SP, 97>>

-----------------------------------------------------------------------------
(* C19 *)

\* the surface form without its separators
Strip(s) == SelectSeq(s, LAMBDA c : c # SP)

\* C19: at every point of the run, entry k without its separators is word k
\* as tokenize left it; a rewrite never makes a surface form longer.
C19_SameWord ==
    /\ [](/\ Len(vocabulary) = Len(words)
          /\ \A k \in 1..Len(vocabulary) :
                Strip(vocabulary[k].token) = words[k].token)
    /\ [][\A k \in 1..Len(vocabulary) :
             (pc = "Rewriting" /\ vocabulary'[k] # vocabulary[k])
                => Len(vocabulary'[k].token) < Len(vocabulary[k].token)]_vars

\* after two merges an entry of three letters is one symbol: the word itself
C19_Witness ==
    /\ pc = "Done"
    /\ Len(log) = 2
    /\ \E k \in 1..Len(vocabulary) :
          /\ Len(words[k].token) >= 3
          /\ vocabulary[k].token = words[k].token

-----------------------------------------------------------------------------
(* C20 *)

\* C20, as claimed: whatever words tokenize put in the store, the surface
\* form the merge pass is rebuilding fits new_token, the pair keys of the
\* counting pass fit pair, and no wcscat goes past the end of new_token.
C20_Claimed ==
    /\ pc # "Undefined"
    /\ pc = "Rewriting" => FitsNewToken(new_token)
    /\ pc = "Pairing" =>
          \A k \in 1..(Len(symbols) - 1) :
              Len(symbols[k]) + 1 + Len(symbols[k + 1]) < MAX_PAIR_LEN

=============================================================================
